---- MODULE Spec2Model ----
(***************************************************************************)
(* Model of halo2-tutorials/src/chap_2/exercise_5.rs: the complex_gate     *)
(* circuit (out = ((a*b)^2*c + c)^3), its chip (configure, assign,         *)
(* expose_public) and its driver (without_witnesses, configure,            *)
(* synthesize), run first for key generation on without_witnesses() and    *)
(* then on the witnessed circuit, followed by the verification of the      *)
(* test (gate identity on every enabled row, every equality constraint).   *)
(*                                                                         *)
(* The layouter is the interface the chip consumes: a region stores the    *)
(* value it is given and hands back a cell handle carrying that value;     *)
(* every call of it returns a Result and may fail.                         *)
(***************************************************************************)
EXTENDS Integers, Sequences, FiniteSets, TLC

\* ---------------------------------------------------------------- bounds

\* Order of the ring the field elements are drawn from (F is generic).
Modulus == 5
\* Rows of the circuit table.
NumRows == 4
\* Largest offset shift of the misaligned variants of assign.
MaxShift == 2

F == 0 .. (Modulus - 1)
Rows == 0 .. (NumRows - 1)

\* ---------------------------------------------------------------- field

FAdd(x, y) == (x + y) % Modulus
FMul(x, y) == (x * y) % Modulus
FSub(x, y) == (x + Modulus - y) % Modulus
\* Fp::from(n): reduction of an integer into the field
FromU64(n) == n % Modulus
\* F::default()
FDefault == 0

\* ------------------------------------------------------------ Value<F>

Unassigned == [st |-> "unassigned", v |-> 0]
Unknown == [st |-> "unknown", v |-> 0]
Known(x) == [st |-> "known", v |-> x]
IsKnown(x) == x.st = "known"
DeferredValues == {Unknown} \cup {Known(x) : x \in F}

VMulUnknownAsZero(x, y) ==
    Known(FMul(IF IsKnown(x) THEN x.v ELSE 0, IF IsKnown(y) THEN y.v ELSE 0))

\* Value<F> * Value<F>
VMul(x, y) ==
    IF IsKnown(x) /\ IsKnown(y) THEN Known(FMul(x.v, y.v)) ELSE Unknown

\* Value<F> + Value<F>
VAdd(x, y) ==
    IF IsKnown(x) /\ IsKnown(y) THEN Known(FAdd(x.v, y.v)) ELSE Unknown

\* ------------------------------------------------------------- cells

AdviceCell(col, row) == [kind |-> "advice", col |-> col, row |-> row]
FixedCell(col, row) == [kind |-> "fixed", col |-> col, row |-> row]
InstanceCell(col, row) == [kind |-> "instance", col |-> col, row |-> row]

AdviceColumns == 0 .. 2
AdviceCells == {AdviceCell(col, row) : col \in AdviceColumns, row \in Rows}

\* Number<F>(AssignedCell<F, F>)
Number(cell, value) == [cell |-> cell, value |-> value]
NoCell == [kind |-> "none", col |-> 0, row |-> 0]
NoNumber == Number(NoCell, Unassigned)

\* The first region of the circuit starts at row 0 of the table.
RegionStart == 0

\* Result<_, Error>
Errors == {"Synthesis", "BoundsFailure"}
IsErr(r) == r \in Errors
\* what a call of the layouter on row `row` can return
Results(row) == IF row \in Rows THEN {"Ok"} \cup Errors ELSE Errors

VARIABLES
    pc,          \* position of the driver
    pass,        \* "none" | "keygen" | "prove"
    circuit,     \* the MyCircuit under test: [a, b, c]
    cur,         \* the circuit the current pass synthesizes
    public,      \* the public input, row 0 of the instance column
    align,       \* [sel, step]: offset of the selector, advance before out
    meta,        \* the ConstraintSystem configure built
    config,      \* the SimpleConfig configure returned
    chip,        \* the SimpleChip synthesize constructed
    offset,      \* assign's local `offset`
    advice,      \* advice cell -> value
    selectors,   \* rows with s_cpx enabled
    fixed,       \* row of the constants column -> value
    copies,      \* equality constraints, pairs of cells
    constants,   \* the region's constants waiting for a fixed cell
    a_cell, b_cell, c_cell,
    out,         \* the Number assign returned
    assignRes, exposeRes, synthRes,
    assignCalls, exposeCalls,
    exposeArgs,  \* arguments of the last expose_public call
    vk,          \* what key generation kept
    accept       \* "none" | "accept" | "reject"

vars == <<pc, pass, circuit, cur, public, align, meta, config, chip, offset,
          advice, selectors, fixed, copies, constants, a_cell, b_cell, c_cell,
          out, assignRes, exposeRes, synthRes, assignCalls, exposeCalls,
          exposeArgs, vk, accept>>

\* ------------------------------------------------------------ the circuit

MyCircuit(a, b, c) == [a |-> a, b |-> b, c |-> c]

\* #[derive(Default)]: c = F::default(), a = b = Value::unknown()
DefaultCircuit == MyCircuit(Unknown, Unknown, FDefault)

\* MyCircuit::without_witnesses
WithoutWitnesses(self) == DefaultCircuit

\* `let mut offset = 0` with the selector at `offset`, then `offset += 1`
CodeAlign == [sel |-> 0, step |-> 1]

EmptyAdvice == [cl \in AdviceCells |-> Unassigned]
EmptyFixed == [r \in Rows |-> Unassigned]
NoMeta == [advice |-> 0, instance |-> 0, fixed |-> 0, selectors |-> 0,
           equality |-> {}, constants |-> <<>>, gates |-> {}]
NoConfig == [advice |-> <<>>, instance |-> 0, s_cpx |-> 0]
NoKey == [meta |-> NoMeta, config |-> NoConfig, selectors |-> {},
          fixed |-> EmptyFixed, copies |-> {}, assigned |-> {}]
NoArgs == [cell |-> NoCell, row |-> 0]

\* the polynomial of complex_gate, on the queried values
ComplexGateNoCube(l, r, c, o) ==
    LET e == FAdd(FMul(FMul(FMul(l, r), FMul(l, r)), c), c)
    IN  FSub(FMul(e, e), o)

ComplexGateNoOut(l, r, c, o) ==
    LET e == FAdd(FMul(FMul(FMul(l, r), FMul(l, r)), c), c)
    IN  FMul(FMul(e, e), e)

ComplexGate(l, r, c, o) ==
    LET e == FAdd(FMul(FMul(FMul(l, r), FMul(l, r)), c), c)
        e_cub == FMul(FMul(e, e), e)
    IN  FSub(e_cub, o)

\* the cells complex_gate queries when enabled on row r
GateQueries(r) ==
    [l |-> AdviceCell(0, r), r |-> AdviceCell(1, r), c |-> AdviceCell(2, r),
     out |-> AdviceCell(0, (r + 1) % NumRows)]

\* the ConstraintSystem after SimpleChip::configure
ConfiguredMeta ==
    [advice |-> 3, instance |-> 1, fixed |-> 1, selectors |-> 1,
     equality |-> {[kind |-> "instance", col |-> 0]}
                  \cup {[kind |-> "advice", col |-> i] : i \in AdviceColumns},
     constants |-> <<0>>, gates |-> {"complex_gate"}]

\* the SimpleConfig SimpleChip::configure returns; the tuple `advice` is
\* indexed from 1: advice[1] is the code's advice[0]
ConfiguredConfig == [advice |-> <<0, 1, 2>>, instance |-> 0, s_cpx |-> 0]

\* --------------------------------------------------------- the layouter

AssignAdviceSkipUnknown(adv, col, row, val) ==
    IF IsKnown(val) THEN [adv EXCEPT ![AdviceCell(col, row)] = val] ELSE adv

\* region.assign_advice: the cell (col, row) takes the value
AssignAdvice(adv, col, row, val) ==
    [adv EXCEPT ![AdviceCell(col, row)] = val]

\* layouter.constrain_instance(cell, instance, row)
ConstrainInstance(cps, cell, instance, row) ==
    cps \cup {<<cell, InstanceCell(instance, row)>>}

\* the next free row of the constants column
NextConstantRow == Cardinality({r \in Rows : fixed[r].st # "unassigned"})

SelectorRowNext(off) == RegionStart + off + 1

\* config.s_cpx.enable(&mut region, offset)
SelectorRow(off) == RegionStart + off + align.sel

\* the witness computation of assign: e = (a*b)*(a*b)*c + c, e_cub = e*e*e
WitnessOutNoAdd(av, bv, cv) ==
    LET e == VMul(VMul(VMul(av, bv), VMul(av, bv)), cv)
    IN  VMul(VMul(e, e), e)

WitnessOut(av, bv, cv) ==
    LET e == VAdd(VMul(VMul(VMul(av, bv), VMul(av, bv)), cv), cv)
        e_cub == VMul(VMul(e, e), e)
    IN  e_cub

\* ------------------------------------------------------------------ Init

Blank ==
    /\ pc = "start"
    /\ pass = "none"
    /\ meta = NoMeta
    /\ config = NoConfig
    /\ chip = [config |-> NoConfig]
    /\ offset = 0
    /\ advice = EmptyAdvice
    /\ selectors = {}
    /\ fixed = EmptyFixed
    /\ copies = {}
    /\ constants = <<>>
    /\ a_cell = NoNumber
    /\ b_cell = NoNumber
    /\ c_cell = NoNumber
    /\ out = NoNumber
    /\ assignRes = "none"
    /\ exposeRes = "none"
    /\ synthRes = "none"
    /\ assignCalls = 0
    /\ exposeCalls = 0
    /\ exposeArgs = NoArgs
    /\ vk = NoKey
    /\ accept = "none"

Init ==
    /\ \E a \in DeferredValues, b \in DeferredValues, c \in F :
          circuit = MyCircuit(a, b, c)
    /\ cur = circuit
    /\ public \in F
    /\ align = CodeAlign
    /\ Blank

\* the variants of assign: the selector at offset sel, out at offset step
InitAlign ==
    /\ \E a \in F, b \in F, c \in F :
          circuit = MyCircuit(Known(a), Known(b), c)
    /\ cur = circuit
    /\ public \in F
    /\ align \in [sel : 0 .. MaxShift, step : 0 .. MaxShift]
    /\ Blank

\* --------------------------------------------------------------- actions

\* groups of variables an action leaves alone
inputs == <<circuit, public, align>>
table == <<advice, selectors, fixed, copies, constants>>
handles == <<a_cell, b_cell, c_cell, out>>
results == <<assignRes, exposeRes, synthRes>>
calls == <<assignCalls, exposeCalls, exposeArgs>>

\* key generation synthesizes circuit.without_witnesses()
KeygenStart ==
    /\ pc = "start"
    /\ pass' = "keygen"
    /\ cur' = WithoutWitnesses(circuit)
    /\ pc' = "configure"
    /\ UNCHANGED <<inputs, meta, config, chip, offset, table, handles,
                   results, calls, vk, accept>>

\* MyCircuit::configure = SimpleChip::configure, on a fresh table
Configure ==
    /\ pc = "configure"
    /\ meta' = ConfiguredMeta
    /\ config' = ConfiguredConfig
    /\ advice' = EmptyAdvice
    /\ selectors' = {}
    /\ fixed' = EmptyFixed
    /\ copies' = {}
    /\ constants' = <<>>
    /\ a_cell' = NoNumber
    /\ b_cell' = NoNumber
    /\ c_cell' = NoNumber
    /\ out' = NoNumber
    /\ assignRes' = "none"
    /\ exposeRes' = "none"
    /\ synthRes' = "none"
    /\ assignCalls' = 0
    /\ exposeCalls' = 0
    /\ exposeArgs' = NoArgs
    /\ pc' = "synthesize"
    /\ UNCHANGED <<inputs, pass, cur, chip, offset, vk, accept>>

\* synthesize: construct the chip, call assign, whose region starts with
\* offset = 0
Synthesize ==
    /\ pc = "synthesize"
    /\ chip' = [config |-> config]
    /\ assignCalls' = assignCalls + 1
    /\ offset' = 0
    /\ pc' = "sel"
    /\ UNCHANGED <<inputs, pass, cur, meta, config, table, handles, results,
                   exposeCalls, exposeArgs, vk, accept>>

\* config.s_cpx.enable(&mut region, offset)?
EnableSelector ==
    /\ pc = "sel"
    /\ \E r \in Results(SelectorRow(offset)) :
          IF r = "Ok"
          THEN /\ selectors' = selectors \cup {SelectorRow(offset)}
               /\ pc' = "a"
               /\ UNCHANGED assignRes
          ELSE /\ assignRes' = r
               /\ pc' = "assign_ret"
               /\ UNCHANGED selectors
    /\ UNCHANGED <<inputs, pass, cur, meta, config, chip, offset, advice,
                   fixed, copies, constants, handles, exposeRes, synthRes,
                   calls, vk, accept>>

\* region.assign_advice(advice[0], offset, || a)?
AssignA ==
    /\ pc = "a"
    /\ \E r \in Results(RegionStart + offset) :
          IF r = "Ok"
          THEN /\ advice' = AssignAdvice(advice, chip.config.advice[1],
                                         RegionStart + offset, cur.a)
               /\ a_cell' = Number(AdviceCell(chip.config.advice[1],
                                              RegionStart + offset), cur.a)
               /\ pc' = "b"
               /\ UNCHANGED assignRes
          ELSE /\ assignRes' = r
               /\ pc' = "assign_ret"
               /\ UNCHANGED <<advice, a_cell>>
    /\ UNCHANGED <<inputs, pass, cur, meta, config, chip, offset, selectors,
                   fixed, copies, constants, b_cell, c_cell, out, exposeRes,
                   synthRes, calls, vk, accept>>

\* region.assign_advice(advice[1], offset, || b)?
AssignB ==
    /\ pc = "b"
    /\ \E r \in Results(RegionStart + offset) :
          IF r = "Ok"
          THEN /\ advice' = AssignAdvice(advice, chip.config.advice[2],
                                         RegionStart + offset, cur.b)
               /\ b_cell' = Number(AdviceCell(chip.config.advice[2],
                                              RegionStart + offset), cur.b)
               /\ pc' = "c"
               /\ UNCHANGED assignRes
          ELSE /\ assignRes' = r
               /\ pc' = "assign_ret"
               /\ UNCHANGED <<advice, b_cell>>
    /\ UNCHANGED <<inputs, pass, cur, meta, config, chip, offset, selectors,
                   fixed, copies, constants, a_cell, c_cell, out, exposeRes,
                   synthRes, calls, vk, accept>>

AssignCFree ==
    /\ pc = "c"
    /\ \E r \in Results(RegionStart + offset) :
          IF r = "Ok"
          THEN /\ advice' = AssignAdvice(advice, chip.config.advice[3],
                                         RegionStart + offset, Known(cur.c))
               /\ c_cell' = Number(AdviceCell(chip.config.advice[3],
                                              RegionStart + offset),
                                   Known(cur.c))
               /\ pc' = "out"
               /\ UNCHANGED assignRes
          ELSE /\ assignRes' = r
               /\ pc' = "assign_ret"
               /\ UNCHANGED <<advice, c_cell>>
    /\ UNCHANGED <<inputs, pass, cur, meta, config, chip, offset, selectors,
                   fixed, copies, constants, a_cell, b_cell, out, exposeRes,
                   synthRes, calls, vk, accept>>

\* region.assign_advice_from_constant(advice[2], offset, c)?: the cell takes
\* Known(c) and the region notes that it must equal the constant c
AssignC ==
    /\ pc = "c"
    /\ \E r \in Results(RegionStart + offset) :
          IF r = "Ok"
          THEN /\ advice' = AssignAdvice(advice, chip.config.advice[3],
                                         RegionStart + offset, Known(cur.c))
               /\ constants' = Append(constants,
                     [value |-> cur.c,
                      cell |-> AdviceCell(chip.config.advice[3],
                                          RegionStart + offset)])
               /\ c_cell' = Number(AdviceCell(chip.config.advice[3],
                                              RegionStart + offset),
                                   Known(cur.c))
               /\ pc' = "out"
               /\ UNCHANGED assignRes
          ELSE /\ assignRes' = r
               /\ pc' = "assign_ret"
               /\ UNCHANGED <<advice, constants, c_cell>>
    /\ UNCHANGED <<inputs, pass, cur, meta, config, chip, offset, selectors,
                   fixed, copies, a_cell, b_cell, out, exposeRes, synthRes,
                   calls, vk, accept>>

\* offset += 1; e and e_cub from the cells' values;
\* region.assign_advice(advice[0], offset, || e_cub), the closure's result
AssignOut ==
    /\ pc = "out"
    /\ offset' = offset + align.step
    /\ \E r \in Results(RegionStart + offset') :
          IF r = "Ok"
          THEN LET e_cub == WitnessOut(a_cell.value, b_cell.value,
                                       c_cell.value)
               IN  /\ advice' = AssignAdvice(advice, config.advice[1],
                                             RegionStart + offset', e_cub)
                   /\ out' = Number(AdviceCell(config.advice[1],
                                               RegionStart + offset'), e_cub)
                   /\ pc' = "exit_region"
                   /\ UNCHANGED assignRes
          ELSE /\ assignRes' = r
               /\ pc' = "assign_ret"
               /\ UNCHANGED <<advice, out>>
    /\ UNCHANGED <<inputs, pass, cur, meta, config, chip, selectors, fixed,
                   copies, constants, a_cell, b_cell, c_cell, exposeRes,
                   synthRes, calls, vk, accept>>

\* assign_region, after the closure: one constant of the region gets the
\* next cell of the constants column and is constrained equal to its cell
AssignConstant ==
    /\ pc = "exit_region"
    /\ constants # <<>>
    /\ \E r1 \in Results(NextConstantRow), r2 \in Results(NextConstantRow) :
          LET k == Head(constants)
              row == NextConstantRow
          IN  IF r1 # "Ok"
              THEN /\ assignRes' = r1
                   /\ out' = NoNumber
                   /\ pc' = "assign_ret"
                   /\ UNCHANGED <<fixed, copies, constants>>
              ELSE /\ fixed' = [fixed EXCEPT ![row] = Known(k.value)]
                   /\ IF r2 # "Ok"
                      THEN /\ assignRes' = r2
                           /\ out' = NoNumber
                           /\ pc' = "assign_ret"
                           /\ UNCHANGED <<copies, constants>>
                      ELSE /\ copies' = copies \cup
                                {<<FixedCell(meta.constants[1], row), k.cell>>}
                           /\ constants' = Tail(constants)
                           /\ UNCHANGED <<assignRes, out, pc>>
    /\ UNCHANGED <<inputs, pass, cur, meta, config, chip, offset, advice,
                   selectors, a_cell, b_cell, c_cell, exposeRes, synthRes,
                   calls, vk, accept>>

\* assign_region returns the closure's Number: assign returns Ok(out)
ExitRegion ==
    /\ pc = "exit_region"
    /\ constants = <<>>
    /\ assignRes' = "Ok"
    /\ pc' = "assign_ret"
    /\ UNCHANGED <<inputs, pass, cur, meta, config, chip, offset, table,
                   handles, exposeRes, synthRes, calls, vk, accept>>

SynthesizeAssignReturnIgnoreErr ==
    /\ pc = "assign_ret"
    /\ pc' = "expose"
    /\ UNCHANGED <<inputs, pass, cur, meta, config, chip, offset, table,
                   handles, results, calls, vk, accept>>

\* `let out = chip.assign(..)?;`
SynthesizeAssignReturn ==
    /\ pc = "assign_ret"
    /\ IF IsErr(assignRes)
       THEN /\ synthRes' = assignRes
            /\ pc' = "synth_ret"
       ELSE /\ pc' = "expose"
            /\ UNCHANGED synthRes
    /\ UNCHANGED <<inputs, pass, cur, meta, config, chip, offset, table,
                   handles, assignRes, exposeRes, calls, vk, accept>>

ExposePublicNextRow ==
    /\ pc = "expose"
    /\ exposeCalls' = exposeCalls + 1
    /\ exposeArgs' = [cell |-> out.cell, row |-> 0]
    /\ \E r \in Results(0) :
          /\ exposeRes' = r
          /\ synthRes' = r
          /\ copies' = IF r = "Ok"
                       THEN ConstrainInstance(copies, out.cell,
                                              chip.config.instance, 1)
                       ELSE copies
    /\ pc' = "synth_ret"
    /\ UNCHANGED <<inputs, pass, cur, meta, config, chip, offset, advice,
                   selectors, fixed, constants, handles, assignRes,
                   assignCalls, vk, accept>>

\* chip.expose_public(layouter, out, 0), whose result synthesize returns:
\* layouter.constrain_instance(out.0.cell(), self.config.instance, row)
ExposePublic ==
    /\ pc = "expose"
    /\ exposeCalls' = exposeCalls + 1
    /\ exposeArgs' = [cell |-> out.cell, row |-> 0]
    /\ \E r \in Results(exposeArgs'.row) :
          /\ exposeRes' = r
          /\ synthRes' = r
          /\ copies' = IF r = "Ok"
                       THEN ConstrainInstance(copies, exposeArgs'.cell,
                                              chip.config.instance,
                                              exposeArgs'.row)
                       ELSE copies
    /\ pc' = "synth_ret"
    /\ UNCHANGED <<inputs, pass, cur, meta, config, chip, offset, advice,
                   selectors, fixed, constants, handles, assignRes,
                   assignCalls, vk, accept>>

\* the cells of the table that hold a value
Assigned(adv) == {cl \in AdviceCells : adv[cl].st # "unassigned"}

\* what key generation keeps of a synthesized table
KeyMaterial ==
    [meta |-> meta, config |-> config, selectors |-> selectors,
     fixed |-> fixed, copies |-> copies, assigned |-> Assigned(advice)]

\* synthesize has returned: key generation keeps the key and the witnessed
\* circuit is synthesized next; the witnessed run is verified (the test
\* unwraps MockProver::run)
SynthesizeReturn ==
    /\ pc = "synth_ret"
    /\ IF IsErr(synthRes)
       THEN /\ pc' = "abort"
            /\ UNCHANGED <<pass, cur, vk>>
       ELSE IF pass = "keygen"
            THEN /\ vk' = KeyMaterial
                 /\ pass' = "prove"
                 /\ cur' = circuit
                 /\ pc' = "configure"
            ELSE /\ pc' = "verify"
                 /\ UNCHANGED <<pass, cur, vk>>
    /\ UNCHANGED <<inputs, meta, config, chip, offset, table, handles,
                   results, calls, accept>>

\* ---------------------------------------------------------- verification

\* the instance column: the public inputs, then zeros
InstanceValue(row, p) == IF row = 0 THEN p ELSE 0

\* the value of a cell in the permutation check (an empty cell reads 0)
CellValue(cell, adv, fx, p) ==
    CASE cell.kind = "advice" -> adv[cell].v
      [] cell.kind = "fixed" -> fx[cell.row].v
      [] cell.kind = "instance" -> InstanceValue(cell.row, p)
      [] OTHER -> 0

\* prover.verify(): every cell an enabled gate queries is assigned, the gate
\* is zero on every enabled row, every equality constraint holds
VerifyOk(adv, sel, fx, cps, p) ==
    /\ \A cp \in cps :
          CellValue(cp[1], adv, fx, p) = CellValue(cp[2], adv, fx, p)
    /\ \A r \in sel :
          LET q == GateQueries(r)
          IN  /\ IsKnown(adv[q.l]) /\ IsKnown(adv[q.r])
              /\ IsKnown(adv[q.c]) /\ IsKnown(adv[q.out])
              /\ ComplexGate(adv[q.l].v, adv[q.r].v, adv[q.c].v,
                             adv[q.out].v) = 0

Verify ==
    /\ pc = "verify"
    /\ accept' = IF VerifyOk(advice, selectors, fixed, copies, public)
                 THEN "accept" ELSE "reject"
    /\ pc' = "done"
    /\ UNCHANGED <<inputs, pass, cur, meta, config, chip, offset, table,
                   handles, results, calls, vk>>

Next ==
    \/ KeygenStart
    \/ Configure
    \/ Synthesize
    \/ EnableSelector
    \/ AssignA
    \/ AssignB
    \/ AssignC
    \/ AssignOut
    \/ AssignConstant
    \/ ExitRegion
    \/ SynthesizeAssignReturn
    \/ ExposePublic
    \/ SynthesizeReturn
    \/ Verify

Spec == Init /\ [][Next]_vars

SpecAlign == InitAlign /\ [][Next]_vars

\* ---------------------------------------------------------------- claims

\* ((a*b)^2 * c + c)^3 in the field, from the integers (e is reduced before
\* it is cubed, to stay within 32 bits)
ExpectedOut(a, b, c) ==
    LET ab == a * b
        e == ((ab * ab) * c + c) % Modulus
    IN  (e * e * e) % Modulus

\* the equality constraints that bind a cell to the instance column
InstanceBindings(cps) == {cp \in cps : cp[2].kind = "instance"}

\* the four cells assign writes
WitnessCells ==
    {AdviceCell(0, 0), AdviceCell(1, 0), AdviceCell(2, 0), AdviceCell(0, 1)}

\* the table with the witness w in the four cells
WithWitness(adv, w) ==
    [cl \in AdviceCells |-> IF cl \in WitnessCells THEN Known(w[cl])
                                                   ELSE adv[cl]]

\* C1: with a and b Known, the verified run of synthesize accepts the public
\* input p if and only if p = ((a*b)^2*c + c)^3; a = 2, b = 3, c = 2 accepts
\* 405224 and rejects 405225.
C1_AcceptIffPublicIsOutput ==
    (pc = "done" /\ IsKnown(circuit.a) /\ IsKnown(circuit.b)) =>
        /\ (accept = "accept") <=>
              (public = ExpectedOut(circuit.a.v, circuit.b.v, circuit.c))
        /\ circuit = MyCircuit(Known(FromU64(2)), Known(FromU64(3)),
                               FromU64(2)) =>
              /\ public = FromU64(405224) => accept = "accept"
              /\ public = FromU64(405225) => accept = "reject"

C1_Witness ==
    /\ pc = "done"
    /\ circuit = MyCircuit(Known(FromU64(2)), Known(FromU64(3)), FromU64(2))
    /\ public = FromU64(405224)
    /\ accept = "accept"

\* C2: the key material of the without_witnesses() run (Config, constraint
\* system, selector rows, fixed column with the committed constant, equality
\* constraints) is that of the witnessed run.
C2_KeyIndependence ==
    (pass = "prove" /\ pc \in {"verify", "done"}) =>
        /\ vk.meta = meta
        /\ vk.config = config
        /\ vk.selectors = selectors
        /\ vk.fixed = fixed
        /\ vk.copies = copies

\* C3: the cell assign returns is Advice[0] at offset 1 and is assigned; it
\* is Known, with ((a*b)*(a*b))*c + c cubed, when a and b are both Known,
\* and Unknown when a or b is Unknown.
C3_OutputCell ==
    (pc = "assign_ret" /\ assignRes = "Ok") =>
        /\ out.cell = AdviceCell(0, 1)
        /\ out.value.st # "unassigned"
        /\ advice[out.cell] = out.value
        /\ (IsKnown(cur.a) /\ IsKnown(cur.b)) =>
              out.value = Known(ExpectedOut(cur.a.v, cur.b.v, cur.c))
        /\ ~(IsKnown(cur.a) /\ IsKnown(cur.b)) => out.value = Unknown

C3_Witness ==
    /\ pc = "assign_ret"
    /\ assignRes = "Ok"
    /\ IsKnown(cur.a)
    /\ ~IsKnown(cur.b)
    /\ out.value = Unknown
    /\ advice[AdviceCell(0, 1)] = Unknown

\* C4: the witnessed run and the without_witnesses() run assign the same
\* cells, enable the selector on the same rows and create the same instance
\* binding (output cell to Instance row 0).
C4_SameStructure ==
    (pass = "prove" /\ pc \in {"verify", "done"}) =>
        /\ Assigned(advice) = vk.assigned
        /\ selectors = vk.selectors
        /\ InstanceBindings(copies) = InstanceBindings(vk.copies)
        /\ InstanceBindings(copies)
              = {<<AdviceCell(0, 1), InstanceCell(0, 0)>>}

C4_Witness ==
    /\ pass = "prove"
    /\ pc = "verify"
    /\ IsKnown(circuit.a)
    /\ IsKnown(circuit.b)
    /\ vk.assigned = WitnessCells
    /\ \E cl \in WitnessCells : IsKnown(advice[cl]) /\ advice[cl].v # 0

\* C5: synthesize stops at the first failure: after a failed assign,
\* expose_public is not called, no instance constraint exists and synthesize
\* returns assign's error; after a successful assign it returns
\* expose_public's result; it returns Ok only when both did; no step runs
\* twice.
C5_ShortCircuit ==
    /\ assignCalls <= 1
    /\ exposeCalls <= 1
    /\ IsErr(assignRes) =>
          /\ exposeCalls = 0
          /\ exposeRes = "none"
          /\ InstanceBindings(copies) = {}
          /\ pc \in {"synth_ret", "abort"} => synthRes = assignRes
    /\ (assignRes = "Ok" /\ pc \in {"synth_ret", "abort"}) =>
          /\ exposeCalls = 1
          /\ synthRes = exposeRes
    /\ synthRes = "Ok" => (assignRes = "Ok" /\ exposeRes = "Ok")

C5_Witness ==
    /\ pc = "synth_ret"
    /\ assignRes = "BoundsFailure"
    /\ synthRes = "BoundsFailure"
    /\ Assigned(advice) # {}
    /\ exposeCalls = 0

\* C6: after assign with Known a and b, the complex_gate polynomial on the
\* assigned cells of the enabled row (l, r, c at row 0, out at row 1) is
\* zero.
C6_GateVanishes ==
    (pc = "assign_ret" /\ assignRes = "Ok" /\ IsKnown(cur.a)
        /\ IsKnown(cur.b)) =>
        /\ 0 \in selectors
        /\ \A cl \in WitnessCells : IsKnown(advice[cl])
        /\ ComplexGate(advice[AdviceCell(0, 0)].v, advice[AdviceCell(1, 0)].v,
                       advice[AdviceCell(2, 0)].v, advice[AdviceCell(0, 1)].v)
              = 0

C6_Witness ==
    /\ pc = "assign_ret"
    /\ assignRes = "Ok"
    /\ IsKnown(cur.a)
    /\ IsKnown(cur.b)
    /\ advice[AdviceCell(0, 1)].v # 0
    /\ 0 \in selectors

\* C7: s_cpx is enabled on row 0 only, before any cell is written; a
\* completed assign has a, b, c in Advice[0], Advice[1], Advice[2] at row 0
\* and the output in Advice[0] at row 1.
C7_SelectorRow ==
    /\ selectors \subseteq {0}
    /\ Assigned(advice) # {} => 0 \in selectors
    /\ (pc = "assign_ret" /\ assignRes = "Ok") =>
          /\ selectors = {0}
          /\ Assigned(advice) = WitnessCells
          /\ a_cell.cell = AdviceCell(0, 0)
          /\ b_cell.cell = AdviceCell(1, 0)
          /\ c_cell.cell = AdviceCell(2, 0)
          /\ out.cell = AdviceCell(0, 1)

C7_Witness ==
    /\ pc = "assign_ret"
    /\ assignRes = "Ok"
    /\ selectors = {0}
    /\ Assigned(advice) = WitnessCells

\* C8: with the selector at offset 0 and the output at offset 1, no output
\* value other than ((a*b)^2*c + c)^3 is accepted, whatever the public
\* input; with any other alignment the honest witness is rejected.
C8_RowAlignment ==
    (pc = "done") =>
        IF align = CodeAlign
        THEN \A o \in F, q \in F :
                VerifyOk(AssignAdvice(advice, 0, 1, Known(o)), selectors,
                         fixed, copies, q)
                   => o = ExpectedOut(circuit.a.v, circuit.b.v, circuit.c)
        ELSE accept = "reject"

C8_Witness ==
    /\ pc = "done"
    /\ align = [sel |-> 1, step |-> 1]
    /\ public = ExpectedOut(circuit.a.v, circuit.b.v, circuit.c)
    /\ accept = "reject"

C10_ExposePublicFrame ==
    [][(pc = "expose") =>
          /\ advice' = advice
          /\ selectors' = selectors
          /\ fixed' = fixed
          /\ config' = config
          /\ meta' = meta
          /\ exposeCalls' = 1
          /\ exposeArgs' = [cell |-> out.cell, row |-> 0]
          /\ out.cell = AdviceCell(0, 1)
          /\ IF exposeRes' = "Ok"
             THEN /\ copies' = copies
                        \cup {<<AdviceCell(0, 1), InstanceCell(0, 0)>>}
                  /\ Cardinality(copies') = Cardinality(copies) + 1
             ELSE copies' = copies]_vars

C10_Witness ==
    /\ pc = "synth_ret"
    /\ exposeRes = "Ok"
    /\ exposeCalls = 1
    /\ <<AdviceCell(0, 1), InstanceCell(0, 0)>> \in copies

====
